---- MODULE Spec2Model ----
(***************************************************************************)
(* Model of emit.Ticker (ticker.go): a resettable, drop-tolerant periodic  *)
(* ticker.  One control loop goroutine (Ticker.run) serialises clock       *)
(* firings, Reset commands and the stop request; Reset and Stop callers    *)
(* and consumers of Ticker.C run concurrently with it.                     *)
(*                                                                         *)
(* The program's actions touch the program's variables only.  What the     *)
(* properties need to remember of the past is kept in the record h, which  *)
(* Next updates beside each action and which no action reads.              *)
(***************************************************************************)
EXTENDS Integers, Sequences, FiniteSets, TLC

\* ---------------------------------------------------------------- bounds
MaxTime == 2          \* clock firings in one behaviour (timestamps 1..MaxTime)
MaxPeriod == 1        \* periods are 0..MaxPeriod, 0 pauses
NumResetters == 1     \* goroutines calling Reset
NumStoppers == 2      \* goroutines calling Stop
MaxAfter == 2         \* receives recorded after Stop() has returned

\* ------------------------------------------------------ program constants
OutCap == 1           \* make(chan time.Time, 1)

Periods == 0..MaxPeriod
ResetCallers == 1..NumResetters
StopCallers == 1..NumStoppers

NoTicker == [live |-> FALSE, C |-> <<>>]           \* t.ticker == nil
NoReset == [d |-> 0, who |-> 0]
Closed == [kind |-> "closed", v |-> 0]              \* receive result ok=false

VARIABLES
  cfg,        \* TickerConfig, fixed at construction
  c,          \* buffer of the output channel t.c
  closed,     \* whether t.c has been closed
  ticker,     \* t.ticker: NoTicker or the live time.Ticker with its channel C
              \* (its period, which nothing reads back, is kept in h.period)
  now,        \* the clock's time, the timestamp of the last firing
  stopInit,   \* t.stop.Init: "idle" (not requested), "ready" (receivable), "taken"
  stopDone,   \* t.stop.Done is closed
  loopPc,     \* position of the goroutine running Ticker.run
  tick,       \* run's local variable tick
  r,          \* run's local variable r (the received tickerReset)
  resetPc,    \* position of every Reset caller
  resetD,     \* the argument d of every Reset caller
  wgDone,     \* the caller's WaitGroup has been released by done()
  stopPc,     \* position of every Stop caller
  h           \* history, see HistInit

prog == <<cfg, c, closed, ticker, now, stopInit, stopDone, loopPc, tick, r,
          resetPc, resetD, wgDone, stopPc>>
vars == <<prog, h>>

\* ------------------------------------------------------------ pure helpers

\* drain: select { case <-t.c: default: }
DrainKeep(ch) == ch
Drain(ch) == IF ch = <<>> THEN ch ELSE Tail(ch)

\* newTicker: stop the previous time.Ticker, then nil for d = 0, else a new one
NewTickerKeepOld(old, d) == IF d = 0 THEN old ELSE [live |-> TRUE, C |-> <<>>]
NewTicker(old, d) == IF d = 0 THEN NoTicker ELSE [live |-> TRUE, C |-> <<>>]

\* newTicker, lines 155-157 then 159-163: the number of running time.Tickers
\* after its first and after its second step, n being the number before
NewTickerClocksStartFirst(n, old, d) ==
  LET started == IF d = 0 THEN n ELSE n + 1
  IN  <<started, IF old.live THEN started - 1 ELSE started>>
NewTickerClocks(n, old, d) ==
  LET stopped == IF old.live THEN n - 1 ELSE n
  IN  <<stopped, IF d = 0 THEN stopped ELSE stopped + 1>>

Max(a, b) == IF a > b THEN a ELSE b

\* ------------------------------------------------------------------- Init
HistInit ==
  [ period       |-> 0,       \* the period last given to newTicker
    lastSent     |-> 0,       \* timestamp of the last completed send on t.c
    replaced     |-> FALSE,   \* the last drain before a send discarded an unconsumed timestamp
    stopReturned |-> FALSE,   \* some Stop() call has returned
    afterStop    |-> <<>>,    \* results of the receives made after Stop() returned
    slotAtStop   |-> <<>>,    \* buffer of t.c when the loop consumed the stop request
    teardowns    |-> 0,       \* times handleStop was entered
    acks         |-> 0,       \* times handleStop called done()
    closes       |-> 0,       \* times t.c was closed
    badChanOp    |-> FALSE,   \* a send on, or a close of, the closed t.c happened
    lateWrite    |-> FALSE,   \* a timestamp was sent on t.c after teardown began
    lateReset    |-> FALSE,   \* a step of handleReset ran after teardown began
    pausedBy     |-> {},      \* callers not yet returned from a Reset(0) that was
                              \* applied with no positive Reset applied since
    pauseRet     |-> FALSE,   \* such a Reset(0) has returned, no positive Reset applied since
    pausedGot    |-> <<>>,    \* timestamps received while pauseRet
    lateCall     |-> {},      \* callers whose running Reset call began after Stop() returned
    lateReturned |-> FALSE,   \* such a Reset call has returned
    takenEarly   |-> FALSE,   \* a timestamp was received after teardown began and
                              \* before any Stop() returned
    lastRecv     |-> 0,       \* the timestamp last received from t.C (0: none yet)
    sinceStop    |-> 0,       \* resets and firings the loop has accepted while the
                              \* stop request was waiting to be received
    clocks       |-> 0,       \* time.Tickers started and not yet stopped
    peak         |-> 0,       \* the most of them there have been at one time
    epoch        |-> 0,       \* the clock's time when a reset was last applied
    dropped      |-> 0,       \* the unhandled firing the last newTicker discarded (0: none)
    last         |-> NoReset, \* the last reset applied, while its caller has not returned
    applies      |-> [rc \in ResetCallers |-> 0],
                              \* clock replacements made for the caller's running call
    held         |-> [rc \in ResetCallers |-> <<>>] ]
                              \* buffer of t.c when the loop accepted the caller's
                              \* command, emptied by a receive since

\* cfg.NewTicker(d), lines 48-65: the state when the constructor returns
ProgInit(d) ==
  /\ cfg \in [CloseOnStop : BOOLEAN, DropTickOnReset : BOOLEAN, DropTickOnStop : BOOLEAN]
  /\ c = <<>>
  /\ closed = FALSE
  /\ ticker = NewTicker(NoTicker, d)
  /\ now = 0
  /\ stopInit = "idle"
  /\ stopDone = FALSE
  /\ loopPc = "top"
  /\ tick = 0
  /\ r = NoReset
  /\ resetPc = [rc \in ResetCallers |-> "idle"]
  /\ resetD = [rc \in ResetCallers |-> 0]
  /\ wgDone = [rc \in ResetCallers |-> FALSE]
  /\ stopPc = [sc \in StopCallers |-> "idle"]

Init == \E d \in Periods : ProgInit(d) /\ h = [HistInit EXCEPT !.period = d]

\* ------------------------------------------------------- the control loop

\* run, lines 90-96: the fast path for stop, a select with a default case
RunFastPathSkipped ==
  /\ loopPc = "top"
  /\ loopPc' = "wait"
  /\ UNCHANGED <<cfg, c, closed, ticker, now, stopInit, stopDone, tick, r, resetPc,
                 resetD, wgDone, stopPc>>

RunFastPath ==
  /\ loopPc = "top"
  /\ IF stopInit = "ready"
       THEN /\ stopInit' = "taken"
            /\ loopPc' = "hs_drain"
       ELSE /\ loopPc' = "wait"
            /\ UNCHANGED stopInit
  /\ UNCHANGED <<cfg, c, closed, ticker, now, stopDone, tick, r, resetPc, resetD,
                 wgDone, stopPc>>

\* run, lines 102-104 and 111-113: the blocking select receives the stop request
RunWaitStop ==
  /\ loopPc = "wait"
  /\ stopInit = "ready"
  /\ stopInit' = "taken"
  /\ loopPc' = "hs_drain"
  /\ UNCHANGED <<cfg, c, closed, ticker, now, stopDone, tick, r, resetPc, resetD,
                 wgDone, stopPc>>

\* run, lines 105 and 114, with Reset line 77: the rendezvous on the unbuffered
\* channel t.reset between the loop's select and caller rc's select
RunWaitReset(rc) ==
  /\ loopPc = "wait"
  /\ resetPc[rc] = "select"
  /\ r' = [d |-> resetD[rc], who |-> rc]
  /\ resetPc' = [resetPc EXCEPT ![rc] = "wait"]
  /\ resetD' = [resetD EXCEPT ![rc] = 0]
  /\ loopPc' = "hr_drain"
  /\ UNCHANGED <<cfg, c, closed, ticker, now, stopInit, stopDone, tick, wgDone,
                 stopPc>>

\* run, line 116: the select receives a firing from t.ticker.C (only when
\* t.ticker is not nil)
RunWaitTickPeeks ==
  /\ loopPc = "wait"
  /\ ticker.live
  /\ ticker.C # <<>>
  /\ tick' = Head(ticker.C)
  /\ loopPc' = "drain"
  /\ UNCHANGED <<cfg, c, closed, ticker, now, stopInit, stopDone, r, resetPc,
                 resetD, wgDone, stopPc>>

RunWaitTick ==
  /\ loopPc = "wait"
  /\ ticker.live
  /\ ticker.C # <<>>
  /\ tick' = Head(ticker.C)
  /\ ticker' = [ticker EXCEPT !.C = Tail(@)]
  /\ loopPc' = "drain"
  /\ UNCHANGED <<cfg, c, closed, now, stopInit, stopDone, r, resetPc, resetD,
                 wgDone, stopPc>>

\* run, line 117: t.drain()
TickDrainSkipped ==
  /\ loopPc = "drain"
  /\ loopPc' = "send"
  /\ UNCHANGED <<cfg, c, closed, ticker, now, stopInit, stopDone, tick, r, resetPc,
                 resetD, wgDone, stopPc>>

TickDrain ==
  /\ loopPc = "drain"
  /\ c' = Drain(c)
  /\ loopPc' = "send"
  /\ UNCHANGED <<cfg, closed, ticker, now, stopInit, stopDone, tick, r, resetPc,
                 resetD, wgDone, stopPc>>

\* run, line 118: t.c <- tick; blocks while the buffer is full, panics on a
\* closed channel; tick then goes out of scope
TickSend ==
  /\ loopPc = "send"
  /\ IF closed
       THEN /\ loopPc' = "panic"
            /\ UNCHANGED c
       ELSE /\ Len(c) < OutCap
            /\ c' = Append(c, tick)
            /\ loopPc' = "top"
  /\ tick' = 0
  /\ UNCHANGED <<cfg, closed, ticker, now, stopInit, stopDone, r, resetPc,
                 resetD, wgDone, stopPc>>

\* ------------------------------------------------------------- handleStop

\* handleStop, lines 125-127: drain when DropTickOnStop
HsDrainAlways ==
  /\ loopPc = "hs_drain"
  /\ c' = Drain(c)
  /\ loopPc' = "hs_close"
  /\ UNCHANGED <<cfg, closed, ticker, now, stopInit, stopDone, tick, r, resetPc,
                 resetD, wgDone, stopPc>>

HsDrainSkipped ==
  /\ loopPc = "hs_drain"
  /\ loopPc' = "hs_close"
  /\ UNCHANGED <<cfg, c, closed, ticker, now, stopInit, stopDone, tick, r, resetPc,
                 resetD, wgDone, stopPc>>

HsDrain ==
  /\ loopPc = "hs_drain"
  /\ c' = IF cfg.DropTickOnStop THEN Drain(c) ELSE c
  /\ loopPc' = "hs_close"
  /\ UNCHANGED <<cfg, closed, ticker, now, stopInit, stopDone, tick, r, resetPc,
                 resetD, wgDone, stopPc>>

\* handleStop, lines 128-130: close(t.c) when CloseOnStop; closing a closed
\* channel panics
HsCloseNever ==
  /\ loopPc = "hs_close"
  /\ loopPc' = "hs_new"
  /\ UNCHANGED <<cfg, c, closed, ticker, now, stopInit, stopDone, tick, r, resetPc,
                 resetD, wgDone, stopPc>>

HsClose ==
  /\ loopPc = "hs_close"
  /\ IF cfg.CloseOnStop
       THEN IF closed
              THEN /\ loopPc' = "panic"
                   /\ UNCHANGED closed
              ELSE /\ closed' = TRUE
                   /\ loopPc' = "hs_new"
       ELSE /\ loopPc' = "hs_new"
            /\ UNCHANGED closed
  /\ UNCHANGED <<cfg, c, ticker, now, stopInit, stopDone, tick, r, resetPc, resetD,
                 wgDone, stopPc>>

\* handleStop, line 131: t.newTicker(0)
HsNewTickerEarlyAck ==
  /\ loopPc = "hs_new"
  /\ ticker' = NewTicker(ticker, 0)
  /\ stopDone' = TRUE
  /\ loopPc' = "hs_done"
  /\ UNCHANGED <<cfg, c, closed, now, stopInit, tick, r, resetPc, resetD,
                 wgDone, stopPc>>

HsNewTicker ==
  /\ loopPc = "hs_new"
  /\ ticker' = NewTicker(ticker, 0)
  /\ loopPc' = "hs_done"
  /\ UNCHANGED <<cfg, c, closed, now, stopInit, stopDone, tick, r, resetPc, resetD,
                 wgDone, stopPc>>

\* handleStop, line 133: done() closes t.stop.Done; then run returns (lines
\* 94, 104, 113)
HsDoneLoops ==
  /\ loopPc = "hs_done"
  /\ stopDone' = TRUE
  /\ loopPc' = "top"
  /\ UNCHANGED <<cfg, c, closed, ticker, now, stopInit, tick, r, resetPc, resetD,
                 wgDone, stopPc>>

HsDone ==
  /\ loopPc = "hs_done"
  /\ stopDone' = TRUE
  /\ loopPc' = "exit"
  /\ UNCHANGED <<cfg, c, closed, ticker, now, stopInit, tick, r, resetPc, resetD,
                 wgDone, stopPc>>

\* ------------------------------------------------------------ handleReset

\* handleReset, lines 137-139: drain when DropTickOnReset
HrDrainAcksEarly ==
  /\ loopPc = "hr_drain"
  /\ c' = IF cfg.DropTickOnReset THEN Drain(c) ELSE c
  /\ wgDone' = [wgDone EXCEPT ![r.who] = TRUE]
  /\ loopPc' = "hr_new"
  /\ UNCHANGED <<cfg, closed, ticker, now, stopInit, stopDone, tick, r, resetPc,
                 resetD, stopPc>>

HrDrainAlways ==
  /\ loopPc = "hr_drain"
  /\ c' = Drain(c)
  /\ loopPc' = "hr_new"
  /\ UNCHANGED <<cfg, closed, ticker, now, stopInit, stopDone, tick, r, resetPc,
                 resetD, wgDone, stopPc>>

HrDrainSkipped ==
  /\ loopPc = "hr_drain"
  /\ loopPc' = "hr_new"
  /\ UNCHANGED <<cfg, c, closed, ticker, now, stopInit, stopDone, tick, r, resetPc,
                 resetD, wgDone, stopPc>>

HrDrain ==
  /\ loopPc = "hr_drain"
  /\ c' = IF cfg.DropTickOnReset THEN Drain(c) ELSE c
  /\ loopPc' = "hr_new"
  /\ UNCHANGED <<cfg, closed, ticker, now, stopInit, stopDone, tick, r, resetPc,
                 resetD, wgDone, stopPc>>

\* handleReset, line 140: t.newTicker(d)
HrNewTickerKeepsChannel ==
  /\ loopPc = "hr_new"
  /\ ticker' = IF r.d > 0 /\ ticker.live THEN ticker ELSE NewTicker(ticker, r.d)
  /\ loopPc' = "hr_done"
  /\ UNCHANGED <<cfg, c, closed, now, stopInit, stopDone, tick, r, resetPc, resetD,
                 wgDone, stopPc>>

HrNewTicker ==
  /\ loopPc = "hr_new"
  /\ ticker' = NewTicker(ticker, r.d)
  /\ loopPc' = "hr_done"
  /\ UNCHANGED <<cfg, c, closed, now, stopInit, stopDone, tick, r, resetPc, resetD,
                 wgDone, stopPc>>

\* handleReset, line 142: done() releases the caller's WaitGroup; r then goes
\* out of scope
HrDoneNoAck ==
  /\ loopPc = "hr_done"
  /\ r' = NoReset
  /\ loopPc' = "top"
  /\ UNCHANGED <<cfg, c, closed, ticker, now, stopInit, stopDone, tick, resetPc,
                 resetD, wgDone, stopPc>>

HrDone ==
  /\ loopPc = "hr_done"
  /\ wgDone' = [wgDone EXCEPT ![r.who] = TRUE]
  /\ r' = NoReset
  /\ loopPc' = "top"
  /\ UNCHANGED <<cfg, c, closed, ticker, now, stopInit, stopDone, tick, resetPc,
                 resetD, stopPc>>

\* ---------------------------------------------------------------- callers
\* t.stop is the shutdown helper: its Init channel delivers the acknowledgement
\* function once, after the first CloseAndWait; calling that function closes
\* Done; CloseAndWait returns when Done is closed.

\* Reset, lines 72-75: a fresh WaitGroup with Add(1), then the select
ResetCall(rc, d) ==
  /\ resetPc[rc] = "idle"
  /\ resetPc' = [resetPc EXCEPT ![rc] = "select"]
  /\ resetD' = [resetD EXCEPT ![rc] = d]
  /\ wgDone' = [wgDone EXCEPT ![rc] = FALSE]
  /\ UNCHANGED <<cfg, c, closed, ticker, now, stopInit, stopDone, loopPc, tick, r,
                 stopPc>>

\* Reset, line 76: case <-t.stop.Done, the call returns without a command
ResetSkip(rc) ==
  /\ resetPc[rc] = "select"
  /\ stopDone
  /\ resetPc' = [resetPc EXCEPT ![rc] = "idle"]
  /\ resetD' = [resetD EXCEPT ![rc] = 0]
  /\ UNCHANGED <<cfg, c, closed, ticker, now, stopInit, stopDone, loopPc, tick, r,
                 wgDone, stopPc>>

\* Reset, line 78: wg.Wait() returns after done()
ResetReturn(rc) ==
  /\ resetPc[rc] = "wait"
  /\ wgDone[rc]
  /\ resetPc' = [resetPc EXCEPT ![rc] = "idle"]
  /\ wgDone' = [wgDone EXCEPT ![rc] = FALSE]
  /\ UNCHANGED <<cfg, c, closed, ticker, now, stopInit, stopDone, loopPc, tick, r,
                 resetD, stopPc>>

\* Stop, line 85, first half of CloseAndWait: the one-time shutdown request
StopCall(sc) ==
  /\ stopPc[sc] = "idle"
  /\ stopPc' = [stopPc EXCEPT ![sc] = "wait"]
  /\ stopInit' = IF stopInit = "idle" THEN "ready" ELSE stopInit
  /\ UNCHANGED <<cfg, c, closed, ticker, now, stopDone, loopPc, tick, r, resetPc,
                 resetD, wgDone>>

\* Stop, line 85, second half of CloseAndWait: wait for the acknowledgement
StopReturn(sc) ==
  /\ stopPc[sc] = "wait"
  /\ stopDone
  /\ stopPc' = [stopPc EXCEPT ![sc] = "idle"]
  /\ UNCHANGED <<cfg, c, closed, ticker, now, stopInit, stopDone, loopPc, tick, r,
                 resetPc, resetD, wgDone>>

\* ------------------------------------------------- clock and consumers

\* the live time.Ticker fires: the timestamp is buffered in its channel (which
\* holds one), or dropped when the previous one has not been received
Fire ==
  /\ ticker.live
  /\ now < MaxTime
  /\ now' = now + 1
  /\ ticker' = [ticker EXCEPT !.C = IF @ = <<>> THEN <<now + 1>> ELSE @]
  /\ UNCHANGED <<cfg, c, closed, stopInit, stopDone, loopPc, tick, r, resetPc,
                 resetD, wgDone, stopPc>>

\* the result of v, ok := <-t.C when it does not block
RecvResult == IF c # <<>> THEN [kind |-> "tick", v |-> Head(c)] ELSE Closed

\* a consumer receives from t.C: a buffered timestamp if there is one, the
\* closed indication if the channel is closed and empty, else it blocks
Recv ==
  /\ c # <<>> \/ closed
  /\ c' = Drain(c)
  /\ UNCHANGED <<cfg, closed, ticker, now, stopInit, stopDone, loopPc, tick, r,
                 resetPc, resetD, wgDone, stopPc>>

\* ---------------------------------------------------------------- history
Inc2(n) == IF n < 2 THEN n + 1 ELSE n

\* the loop consumes the stop request
RecStopTaken ==
  IF stopInit = "ready" /\ stopInit' = "taken"
    THEN [h EXCEPT !.teardowns = Inc2(@), !.slotAtStop = c]
    ELSE h

\* a step of the loop on a reset command
RecReset == [h EXCEPT !.lateReset = @ \/ h.teardowns > 0]

RecTickDrain == [h EXCEPT !.replaced = (c # <<>> /\ c' = <<>>)]

RecTickSend ==
  IF loopPc' = "panic"
    THEN [h EXCEPT !.badChanOp = TRUE]
    ELSE [h EXCEPT !.lastSent = tick, !.lateWrite = @ \/ h.teardowns > 0]

RecHsDrain == [h EXCEPT !.replaced = @ /\ c' # <<>>]

RecHsClose ==
  IF loopPc' = "panic"
    THEN [h EXCEPT !.badChanOp = TRUE]
    ELSE [h EXCEPT !.closes = IF closed' /\ ~closed THEN Inc2(@) ELSE @]

RecHsDone == [h EXCEPT !.acks = Inc2(@)]

RecHrDrain == [RecReset EXCEPT !.replaced = @ /\ c' # <<>>]

\* a Reset(0) has been applied, or a positive one ends the pause
RecHrNewTicker ==
  IF r.d = 0
    THEN [RecReset EXCEPT !.period = 0, !.pausedBy = @ \cup {r.who}]
    ELSE [RecReset EXCEPT !.period = r.d, !.pausedBy = {}, !.pauseRet = FALSE,
                          !.pausedGot = <<>>]

RecHsNewTicker == [h EXCEPT !.period = 0]

RecResetCall(rc) ==
  [h EXCEPT !.lateCall = IF h.stopReturned THEN @ \cup {rc} ELSE @ \ {rc}]

\* a Reset call returns, skipped or applied
RecResetEnd(rc) ==
  [h EXCEPT !.lateCall = @ \ {rc},
            !.lateReturned = @ \/ rc \in h.lateCall,
            !.pauseRet = @ \/ rc \in h.pausedBy,
            !.pausedBy = @ \ {rc}]

RecStopReturn == [h EXCEPT !.stopReturned = TRUE]

RecRecv ==
  [h EXCEPT !.afterStop = IF h.stopReturned /\ Len(@) < MaxAfter
                            THEN Append(@, RecvResult) ELSE @,
            !.pausedGot = IF h.pauseRet /\ c # <<>> THEN Append(@, Head(c)) ELSE @,
            !.replaced = FALSE,
            !.takenEarly = @ \/ (h.teardowns > 0 /\ ~h.stopReturned /\ c # <<>>)]

\* ------------------------------------------- history of the clock and resets

\* newTicker(d) runs: the clocks it stops and starts, the firing it discards
RstNewTicker(d) ==
  LET k == NewTickerClocks(h.clocks, ticker, d)
  IN  [h EXCEPT !.period = d,
                !.clocks = k[2],
                !.peak = Max(Max(@, k[1]), k[2]),
                !.dropped = IF ticker.C = <<>> THEN 0 ELSE Head(ticker.C)]

RstHrNewTicker ==
  [RstNewTicker(r.d) EXCEPT !.applies = [@ EXCEPT ![r.who] = Inc2(@)],
                            !.last = r,
                            !.epoch = now]

RstHsNewTicker == RstNewTicker(0)

\* the loop accepts caller rc's command
RstAccept(rc) == [h EXCEPT !.held = [@ EXCEPT ![rc] = c]]

\* caller rc returns from an applied Reset
RstResetReturn(rc) ==
  [h EXCEPT !.applies = [@ EXCEPT ![rc] = 0],
            !.held = [@ EXCEPT ![rc] = <<>>],
            !.last = IF @.who = rc THEN NoReset ELSE @]

RstRecv == [h EXCEPT !.held = [rc \in ResetCallers |-> <<>>]]

\* --------------------------------------------------- history of deliveries

\* a consumer receives: the timestamp it gets, if it gets one
OrdRecv == [h EXCEPT !.lastRecv = IF c # <<>> THEN Head(c) ELSE @]

\* the loop's blocking select takes a reset command or a firing
OrdAccept == [h EXCEPT !.sinceStop = IF stopInit = "ready" THEN Inc2(@) ELSE @]

\* ------------------------------------------------------- specifications

\* the steps of the goroutine running Ticker.run
LoopNext ==
  \/ RunFastPath
  \/ RunWaitStop
  \/ \E rc \in ResetCallers : RunWaitReset(rc)
  \/ RunWaitTick
  \/ TickDrain
  \/ TickSend
  \/ HsDrain
  \/ HsClose
  \/ HsNewTicker
  \/ HsDone
  \/ HrDrain
  \/ HrNewTicker
  \/ HrDone

Next ==
  \/ RunFastPath /\ h' = RecStopTaken
  \/ RunWaitStop /\ h' = RecStopTaken
  \/ \E rc \in ResetCallers : RunWaitReset(rc) /\ h' = RecReset
  \/ RunWaitTick /\ UNCHANGED h
  \/ TickDrain /\ h' = RecTickDrain
  \/ TickSend /\ h' = RecTickSend
  \/ HsDrain /\ h' = RecHsDrain
  \/ HsClose /\ h' = RecHsClose
  \/ HsNewTicker /\ h' = RecHsNewTicker
  \/ HsDone /\ h' = RecHsDone
  \/ HrDrain /\ h' = RecHrDrain
  \/ HrNewTicker /\ h' = RecHrNewTicker
  \/ HrDone /\ h' = RecReset
  \/ \E rc \in ResetCallers, d \in Periods : ResetCall(rc, d) /\ h' = RecResetCall(rc)
  \/ \E rc \in ResetCallers : ResetSkip(rc) /\ h' = RecResetEnd(rc)
  \/ \E rc \in ResetCallers : ResetReturn(rc) /\ h' = RecResetEnd(rc)
  \/ \E sc \in StopCallers : StopCall(sc) /\ UNCHANGED h
  \/ \E sc \in StopCallers : StopReturn(sc) /\ h' = RecStopReturn
  \/ Fire /\ UNCHANGED h
  \/ Recv /\ h' = RecRecv

Spec == Init /\ [][Next]_vars

\* The same program with the history of the clock and of the resets recorded
\* in place of the history of the stop.
ResetInit ==
  \E d \in Periods :
    /\ ProgInit(d)
    /\ h = [HistInit EXCEPT !.period = d,
                            !.clocks = NewTickerClocks(0, NoTicker, d)[2],
                            !.peak = NewTickerClocks(0, NoTicker, d)[2]]

ResetNext ==
  \/ RunFastPath /\ UNCHANGED h
  \/ RunWaitStop /\ UNCHANGED h
  \/ \E rc \in ResetCallers : RunWaitReset(rc) /\ h' = RstAccept(rc)
  \/ RunWaitTick /\ UNCHANGED h
  \/ TickDrain /\ UNCHANGED h
  \/ TickSend /\ UNCHANGED h
  \/ HsDrain /\ UNCHANGED h
  \/ HsClose /\ UNCHANGED h
  \/ HsNewTicker /\ h' = RstHsNewTicker
  \/ HsDone /\ UNCHANGED h
  \/ HrDrain /\ UNCHANGED h
  \/ HrNewTicker /\ h' = RstHrNewTicker
  \/ HrDone /\ UNCHANGED h
  \/ \E rc \in ResetCallers, d \in Periods : ResetCall(rc, d) /\ UNCHANGED h
  \/ \E rc \in ResetCallers : ResetSkip(rc) /\ UNCHANGED h
  \/ \E rc \in ResetCallers : ResetReturn(rc) /\ h' = RstResetReturn(rc)
  \/ \E sc \in StopCallers : StopCall(sc) /\ UNCHANGED h
  \/ \E sc \in StopCallers : StopReturn(sc) /\ UNCHANGED h
  \/ Fire /\ UNCHANGED h
  \/ Recv /\ h' = RstRecv

ResetSpec == ResetInit /\ [][ResetNext]_vars

\* The same program with only the consumers' receives and what the loop's
\* select takes recorded.
OrderNext ==
  \/ RunFastPath /\ UNCHANGED h
  \/ RunWaitStop /\ UNCHANGED h
  \/ \E rc \in ResetCallers : RunWaitReset(rc) /\ h' = OrdAccept
  \/ RunWaitTick /\ h' = OrdAccept
  \/ TickDrain /\ UNCHANGED h
  \/ TickSend /\ UNCHANGED h
  \/ HsDrain /\ UNCHANGED h
  \/ HsClose /\ UNCHANGED h
  \/ HsNewTicker /\ UNCHANGED h
  \/ HsDone /\ UNCHANGED h
  \/ HrDrain /\ UNCHANGED h
  \/ HrNewTicker /\ UNCHANGED h
  \/ HrDone /\ UNCHANGED h
  \/ \E rc \in ResetCallers, d \in Periods : ResetCall(rc, d) /\ UNCHANGED h
  \/ \E rc \in ResetCallers : ResetSkip(rc) /\ UNCHANGED h
  \/ \E rc \in ResetCallers : ResetReturn(rc) /\ UNCHANGED h
  \/ \E sc \in StopCallers : StopCall(sc) /\ UNCHANGED h
  \/ \E sc \in StopCallers : StopReturn(sc) /\ UNCHANGED h
  \/ Fire /\ UNCHANGED h
  \/ Recv /\ h' = OrdRecv

\* The same program with the history left unrecorded, for the properties of
\* the program's variables alone.
LiveNext ==
  \/ LoopNext /\ UNCHANGED h
  \/ \E rc \in ResetCallers, d \in Periods : ResetCall(rc, d) /\ UNCHANGED h
  \/ \E rc \in ResetCallers : ResetSkip(rc) /\ UNCHANGED h
  \/ \E rc \in ResetCallers : ResetReturn(rc) /\ UNCHANGED h
  \/ \E sc \in StopCallers : StopCall(sc) /\ UNCHANGED h
  \/ \E sc \in StopCallers : StopReturn(sc) /\ UNCHANGED h
  \/ Fire /\ UNCHANGED h
  \/ Recv /\ UNCHANGED h

\* The Go scheduler keeps running every goroutine that can take a step: the
\* control loop, and a Stop caller whose wait on t.stop.Done is over.  Callers
\* need not call, consumers need not receive, the clock need not fire.
LiveInit == \E d \in Periods : ProgInit(d) /\ h = HistInit

OrderSpec == LiveInit /\ [][OrderNext]_vars

LiveSpec ==
  /\ LiveInit
  /\ [][LiveNext]_vars
  /\ WF_vars(LoopNext /\ UNCHANGED h)
  /\ \A sc \in StopCallers : WF_vars(StopReturn(sc) /\ UNCHANGED h)

\* For the Reset callers: the control loop keeps running; a caller whose wait
\* is over (t.stop.Done closed, or its WaitGroup released) keeps running; and
\* the loop's select, which chooses at random among its ready cases, does not
\* pass over a caller that stays ready to send on t.reset forever.  Stop
\* callers need not return.
ResetLiveSpec ==
  /\ LiveInit
  /\ [][LiveNext]_vars
  /\ WF_vars(LoopNext /\ UNCHANGED h)
  /\ \A rc \in ResetCallers : SF_vars(RunWaitReset(rc) /\ UNCHANGED h)
  /\ \A rc \in ResetCallers :
       WF_vars((ResetSkip(rc) \/ ResetReturn(rc)) /\ UNCHANGED h)

\* ----------------------------------------------------------------- claims

AfterStopTicks == {i \in DOMAIN h.afterStop : h.afterStop[i].kind = "tick"}
InHandleStop == loopPc \in {"hs_drain", "hs_close", "hs_new", "hs_done"}
InHandleReset == loopPc \in {"hr_drain", "hr_new", "hr_done"}

\* C1: whenever the loop has taken a clock firing and stands at the send
\* t.c <- tick, the buffer of t.c is empty and t.c is open, so the send
\* completes without any consumer receiving.
C1_SendNeverBlocks == loopPc = "send" => (c = <<>> /\ ~closed)

\* the loop is about to send after its drain discarded an unconsumed timestamp,
\* while a stop request is pending
C1_Witness == loopPc = "send" /\ h.replaced /\ stopInit = "ready" /\ tick = MaxTime

\* the firing the loop has handled last: from the moment the stale value has
\* been discarded it is the firing being delivered, else the last one sent
LatestHandled == IF loopPc = "send" THEN tick ELSE h.lastSent

\* C2: the slot holds at most one timestamp, and a timestamp it holds is the
\* one of the most recent firing the loop has handled, never an older one
\* (while the loop holds a newer firing not yet handled, the slot's is older).
C2_SlotHoldsLatest ==
  /\ Len(c) <= 1
  /\ c # <<>> => c[1] = LatestHandled
  /\ (c # <<>> /\ loopPc = "drain") => c[1] < tick

\* the slot holds the newest firing after an unconsumed older one was replaced
C2_Witness == c = <<MaxTime>> /\ h.replaced /\ loopPc = "wait"

\* C3 as stated: after Stop() has returned no receive yields a timestamp.
C3_Original == AfterStopTicks = {}

\* C3 amended: after Stop() has returned, receives yield a timestamp at most
\* once in total, only when DropTickOnStop is false, and it is the timestamp
\* that was in the slot when the loop began teardown.
C3_AtMostTheKeptTick ==
  h.stopReturned =>
    /\ Cardinality(AfterStopTicks) + Len(c) <= 1
    /\ cfg.DropTickOnStop => (AfterStopTicks = {} /\ c = <<>>)
    /\ \A i \in AfterStopTicks : h.slotAtStop = <<h.afterStop[i].v>>
    /\ c # <<>> => c = h.slotAtStop

\* a receive after Stop() returned has yielded the kept timestamp
C3_Witness == h.stopReturned /\ AfterStopTicks # {} /\ ~cfg.CloseOnStop

\* C4 as stated: with CloseOnStop the first receive after Stop() returned
\* yields the closed indication.
C4_Original ==
  (cfg.CloseOnStop /\ Len(h.afterStop) >= 1) => h.afterStop[1] = Closed

\* C4 amended: with CloseOnStop, once Stop() has returned t.c is closed, so no
\* receive blocks; the first receive yields the closed indication unless
\* DropTickOnStop is false and the timestamp that was in the slot when teardown
\* began is still there, in which case it yields that timestamp and the second
\* receive yields the closed indication.
C4_ClosedAfterKeptTick ==
  (cfg.CloseOnStop /\ h.stopReturned) =>
    /\ closed
    /\ Len(h.afterStop) >= 1 =>
         \/ h.afterStop[1] = Closed
         \/ ~cfg.DropTickOnStop /\ h.slotAtStop = <<h.afterStop[1].v>>
    /\ Len(h.afterStop) >= 2 => h.afterStop[2] = Closed

\* with CloseOnStop the first receive got the kept timestamp, the second the
\* closed indication
C4_Witness ==
  /\ cfg.CloseOnStop
  /\ Len(h.afterStop) >= 2
  /\ h.afterStop[1].kind = "tick"
  /\ h.afterStop[2] = Closed

\* C5 as stated: after Reset(0) has returned, no receive yields a timestamp
\* until a later positive Reset has been applied.
C5_Original == h.pausedGot = <<>>

\* C5 amended: after an applied Reset(0) has returned and until a positive
\* Reset is applied, no clock is live and the loop delivers no firing; receives
\* yield a timestamp at most once in total and only when DropTickOnReset is
\* false (the timestamp the reset left in the slot).
C5_PausedKeepsOnlyOldTick ==
  h.pauseRet =>
    /\ ~ticker.live
    /\ loopPc \notin {"drain", "send"}
    /\ Len(h.pausedGot) + Len(c) <= 1
    /\ cfg.DropTickOnReset => (h.pausedGot = <<>> /\ c = <<>>)

\* a consumer received the kept timestamp while the ticker was paused
C5_Witness == h.pauseRet /\ h.pausedGot # <<>> /\ stopInit = "idle"

\* C6: once the loop has consumed the stop request it only runs handleStop and
\* exits: no timestamp is sent on t.c afterwards, t.c is never sent to or closed
\* when already closed, and it is closed at most once.
C6_NothingAfterTeardown ==
  /\ ~h.lateWrite
  /\ ~h.badChanOp
  /\ h.closes <= 1
  /\ h.teardowns > 0 => (InHandleStop \/ loopPc = "exit")
  /\ loopPc = "exit" => (~ticker.live /\ Len(c) <= Len(h.slotAtStop))

\* the loop has exited after closing t.c, and a Reset call made after Stop()
\* returned has come back
C6_Witness == loopPc = "exit" /\ h.closes = 1 /\ h.lateReturned /\ now = MaxTime

\* C7: for any number of Stop() calls the teardown runs exactly once, and no
\* Stop() call returns before it has finished (drain, close, clock release and
\* acknowledgement all done, the loop exited).
C7_SingleTeardown ==
  /\ h.teardowns <= 1
  /\ h.acks <= 1
  /\ h.closes <= 1
  /\ h.stopReturned =>
       /\ h.teardowns = 1
       /\ h.acks = 1
       /\ loopPc = "exit"
       /\ ~ticker.live
       /\ h.closes = (IF cfg.CloseOnStop THEN 1 ELSE 0)
       /\ cfg.DropTickOnStop => c = <<>>

\* a Stop() has returned and every Stop caller is inside a further Stop() call
C7_Witness == h.stopReturned /\ \A sc \in StopCallers : stopPc[sc] = "wait"

\* C8: under weak fairness of the control loop (and of the caller's own return)
\* every Stop() call that has been made returns, whatever Reset callers,
\* other Stop callers, the clock and the consumers do or fail to do.
C8_StopReturns ==
  \A sc \in StopCallers : (stopPc[sc] = "wait") ~> (stopPc[sc] = "idle")

\* every Stop() call made has returned, with a timestamp left unreceived in
\* the slot and a Reset caller still inside its call
C8_Witness ==
  /\ stopInit = "taken"
  /\ \A sc \in StopCallers : stopPc[sc] = "idle"
  /\ c # <<>>
  /\ \E rc \in ResetCallers : resetPc[rc] # "idle"

\* C9: a reset is applied only before teardown begins and an accepted command is
\* applied to the end (the caller waits only while the loop is in handleReset
\* for it); once a Stop() has returned no clock is live.
C9_ResetAppliedOrSkipped ==
  /\ ~h.lateReset
  /\ InHandleReset => (h.teardowns = 0 /\ r.who \in ResetCallers)
  /\ \A rc \in ResetCallers :
       (resetPc[rc] = "wait" /\ ~wgDone[rc]) => (InHandleReset /\ r.who = rc)
  /\ \A rc \in ResetCallers :
       (resetPc[rc] = "wait" /\ wgDone[rc]) => ~(InHandleReset /\ r.who = rc)
  /\ h.stopReturned => ~ticker.live

\* the loop applies a Reset(d > 0) while the stop request is already pending
C9_Witness == loopPc = "hr_new" /\ r.d > 0 /\ stopInit = "ready"

\* what may change once a Stop() has returned: nothing of the ticker; only a
\* consumer's receive changes the buffer of t.c
FrozenStep ==
  /\ ticker' = ticker
  /\ h'.period = h.period
  /\ closed' = closed
  /\ loopPc' = loopPc
  /\ stopDone' = stopDone
  /\ c' = c \/ Recv

\* C10: once Stop() has returned, a later Reset(d) is never accepted by the loop
\* (it can only return through the closed t.stop.Done) and changes nothing: no
\* clock is started, the period stays zero, the buffer of t.c and its
\* open/closed status stay as they are and the loop stays exited.
C10_LateResetIsNoOp ==
  /\ [](h.stopReturned =>
          /\ ticker = NoTicker
          /\ h.period = 0
          /\ loopPc = "exit"
          /\ stopDone
          /\ \A rc \in h.lateCall : resetPc[rc] = "select")
  /\ [][h.stopReturned => FrozenStep]_vars

\* a Reset called after Stop() returned has come back; the kept timestamp is
\* still in the open channel
C10_Witness == h.lateReturned /\ c # <<>> /\ ~closed /\ loopPc = "exit"

\* the Reset callers whose command has been applied and acknowledged and who
\* are about to return
Returning == {rc \in ResetCallers : resetPc[rc] = "wait" /\ wgDone[rc]}

\* C11: a Reset(d) accepted by the loop returns only after the loop has
\* finished applying it, by exactly one clock replacement; when no other reset
\* has been applied since and teardown has not begun, at its return the period
\* is d and a clock is present exactly when d > 0.
C11_ResetIsSynchronous ==
  /\ \A rc \in ResetCallers : h.applies[rc] <= 1
  /\ \A rc \in Returning :
       /\ h.applies[rc] = 1
       /\ ~(InHandleReset /\ r.who = rc)
       /\ (h.last.who = rc /\ stopInit # "taken") =>
            /\ h.period = h.last.d
            /\ ticker.live = (h.last.d > 0)

\* a Reset(d > 0) that replaced a live clock is about to return, no Stop called
C11_Witness ==
  /\ \E rc \in Returning : h.last = [d |-> MaxPeriod, who |-> rc]
  /\ h.epoch > 0
  /\ ticker.live
  /\ stopInit = "idle"

\* C12: with DropTickOnReset, when an applied Reset(d) is about to return the
\* slot holds no timestamp from before the reset was applied: a timestamp in it
\* is later than the clock's time at the last applied reset (so it is a firing
\* of a clock started by this reset or a later one), and the slot is empty when
\* this Reset(0) is the last reset applied.
C12_DropOnResetLeavesNothingOld ==
  cfg.DropTickOnReset =>
    \A rc \in Returning :
      /\ c # <<>> => c[1] > h.epoch
      /\ h.last = [d |-> 0, who |-> rc] => c = <<>>

\* a Reset(d > 0) accepted while the slot held a timestamp is about to return
\* and the slot holds a firing of the new clock
C12_Witness ==
  /\ cfg.DropTickOnReset
  /\ \E rc \in Returning : h.held[rc] # <<>> /\ h.last = [d |-> MaxPeriod, who |-> rc]
  /\ c # <<>>

\* C13 as stated: with DropTickOnReset false, when the slot held a timestamp at
\* the acceptance of a reset and no consumer has received since, the slot holds
\* a timestamp when that Reset is about to return, the same one for Reset(0).
C13_Original ==
  ~cfg.DropTickOnReset =>
    \A rc \in Returning :
      h.held[rc] # <<>> =>
        /\ c # <<>>
        /\ h.last = [d |-> 0, who |-> rc] => c = h.held[rc]

\* C13 amended: with DropTickOnReset false, handleReset leaves the slot as it
\* found it: absent a receive the slot holds the very same timestamp from the
\* acceptance of the reset to its acknowledgement.  When the Reset is about to
\* return the slot still holds a timestamp (the same one when this Reset(0) is
\* the last reset applied), except that the loop may stand between discarding it
\* and writing a newer firing of the restarted clock, or teardown with
\* DropTickOnStop may have discarded it.
C13_ResetKeepsSlot ==
  ~cfg.DropTickOnReset =>
    /\ \A rc \in ResetCallers :
         (InHandleReset /\ r.who = rc /\ h.held[rc] # <<>>) => c = h.held[rc]
    /\ \A rc \in Returning :
         h.held[rc] # <<>> =>
           \/ c # <<>> /\ (h.last = [d |-> 0, who |-> rc] => c = h.held[rc])
           \/ loopPc = "send" /\ h.period > 0
           \/ stopInit = "taken" /\ cfg.DropTickOnStop

\* a Reset(0) accepted while the slot held a timestamp is about to return, the
\* timestamp still in the slot, no Stop called
C13_Witness ==
  /\ ~cfg.DropTickOnReset
  /\ \E rc \in Returning : h.held[rc] # <<>> /\ h.last = [d |-> 0, who |-> rc]
  /\ c # <<>>
  /\ stopInit = "idle"

\* C14: with DropTickOnStop the slot is empty from the acknowledgement of the
\* stop on (so when any Stop() returns and ever after), nothing is left that
\* could refill it (no clock, no loop), and no receive made after Stop()
\* returned yields a timestamp, whatever CloseOnStop and DropTickOnReset are.
C14_DropOnStopEmptiesSlot ==
  cfg.DropTickOnStop =>
    /\ stopDone => (c = <<>> /\ ticker = NoTicker /\ loopPc = "exit")
    /\ h.stopReturned => (stopDone /\ AfterStopTicks = {})

\* with DropTickOnStop the slot held a timestamp when teardown began, and a
\* receive made after Stop() returned got the closed indication
C14_Witness ==
  /\ cfg.DropTickOnStop
  /\ h.slotAtStop # <<>>
  /\ h.stopReturned
  /\ h.afterStop # <<>>
  /\ c = <<>>

\* the result of a receive that yields the timestamp the slot held when
\* teardown began
KeptTick == [kind |-> "tick", v |-> h.slotAtStop[1]]

\* C15 as stated: with DropTickOnStop false, a timestamp in the slot when
\* teardown began is in the slot when Stop() has returned until the first
\* receive made afterwards, which yields it.
C15_Original ==
  (~cfg.DropTickOnStop /\ h.slotAtStop # <<>> /\ h.stopReturned) =>
    IF h.afterStop = <<>> THEN c = h.slotAtStop ELSE h.afterStop[1] = KeptTick

\* C15 amended: with DropTickOnStop false, teardown leaves the slot as it
\* found it; unless a consumer received the timestamp between the beginning of
\* teardown and the return of Stop(), it is in the slot when Stop() has returned
\* and is the result of the first receive made afterwards, with CloseOnStop
\* (the closed indication following it) as without.
C15_KeptTickIsFirst ==
  (~cfg.DropTickOnStop /\ h.slotAtStop # <<>>) =>
    /\ (h.teardowns > 0 /\ ~h.takenEarly /\ ~h.stopReturned) => c = h.slotAtStop
    /\ (h.stopReturned /\ ~h.takenEarly) =>
         /\ IF h.afterStop = <<>> THEN c = h.slotAtStop ELSE h.afterStop[1] = KeptTick
         /\ (cfg.CloseOnStop /\ Len(h.afterStop) >= 2) => h.afterStop[2] = Closed
    /\ (h.stopReturned /\ h.takenEarly) => (c = <<>> /\ AfterStopTicks = {})

\* the newest firing was in the slot when teardown began, and with CloseOnStop
\* the first receive after Stop() returned got it
C15_Witness ==
  /\ ~cfg.DropTickOnStop
  /\ cfg.CloseOnStop
  /\ h.slotAtStop = <<MaxTime>>
  /\ h.stopReturned
  /\ h.afterStop # <<>>
  /\ h.afterStop[1] = KeptTick

\* C16: a timestamp a consumer can receive is later than every timestamp
\* received before, so the timestamps taken in receive order are strictly
\* increasing and no firing is received twice; the firings still on their way
\* (in the loop's hands, in the clock's channel) are later again, so this stays
\* so through drops and resets.
C16_ReceivedIncreasing ==
  /\ c # <<>> => c[1] > h.lastRecv
  /\ loopPc \in {"drain", "send"} =>
       /\ tick > h.lastRecv
       /\ c # <<>> => tick > c[1]
  /\ ticker.C # <<>> =>
       /\ Head(ticker.C) > h.lastRecv
       /\ c # <<>> => Head(ticker.C) > c[1]
       /\ loopPc \in {"drain", "send"} => Head(ticker.C) > tick

\* a consumer has received a timestamp, a later one is in the slot, and a Reset
\* caller is inside its call
C16_Witness ==
  /\ h.lastRecv > 0
  /\ c = <<MaxTime>>
  /\ \E rc \in ResetCallers : resetPc[rc] = "wait"

\* C17: from the constructor's return on, exactly one time.Ticker is running
\* when the period is positive and none when it is zero, t.ticker being nil
\* exactly when the period is zero; newTicker stops the previous clock before
\* it starts the next, so there are never two; and none runs from the
\* acknowledgement of the stop on, so none when a Stop() returns.
C17_OneClockIffPeriod ==
  /\ h.clocks = (IF h.period > 0 THEN 1 ELSE 0)
  /\ ticker.live = (h.period > 0)
  /\ h.peak <= 1
  /\ stopDone => (h.clocks = 0 /\ ticker = NoTicker)

\* a reset has just replaced a live clock, which had an unhandled firing, by a
\* new one
C17_Witness ==
  /\ loopPc = "hr_done"
  /\ r.d > 0
  /\ h.dropped > 0
  /\ h.clocks = 1
  /\ h.peak = 1

\* C18: a firing the loop holds for writing, or that waits in the channel of
\* t.ticker, is later than the clock's time at the last applied reset, so it is
\* a firing of the clock that reset started (resets being applied one at a
\* time, of the clock started by any given reset or by a later one); the
\* unhandled firing a reset discarded with the replaced clock is never written.
C18_NoFiringOfReplacedClock ==
  /\ loopPc \in {"drain", "send"} => (tick > h.epoch /\ tick # h.dropped)
  /\ ticker.C # <<>> => (Head(ticker.C) > h.epoch /\ ticker.live)
  /\ InHandleReset => tick = 0

\* after a reset that discarded an unhandled firing of the replaced clock has
\* returned, the loop writes a firing of the new clock
C18_Witness ==
  /\ loopPc = "send"
  /\ h.dropped > 0
  /\ h.epoch > 0
  /\ h.last = NoReset
  /\ \A rc \in ResetCallers : resetPc[rc] = "idle"

C20_StopNotStarved ==
  /\ h.sinceStop <= 1
  /\ (stopInit = "ready" /\ loopPc = "wait") => h.sinceStop = 0
  /\ (stopInit = "ready" /\ h.sinceStop = 1) =>
       (InHandleReset \/ loopPc \in {"drain", "send", "top"})

\* the loop accepted one more event after the stop request was made and has
\* begun teardown, leaving a ready Reset caller and a ready firing unserved
C20_Witness ==
  /\ h.sinceStop = 1
  /\ loopPc = "hs_drain"
  /\ \E rc \in ResetCallers : resetPc[rc] = "select"
  /\ ticker.C # <<>>

====
